---- MODULE Spec2Model ----
(***************************************************************************)
(* corpy.vertical: the structural-tag recognizer, the position streamer    *)
(* Vertical.positions (a generator), and the indexer Vertical.search.      *)
(*                                                                         *)
(* Text is a sequence of one-character strings. A corpus file is a         *)
(* sequence of raw lines, each ending in "\n".                             *)
(***************************************************************************)
EXTENDS Integers, Sequences, FiniteSets, TLC

(***************************************************************************)
(* Bounds of the model.                                                    *)
(***************************************************************************)
MaxLines == 3

(***************************************************************************)
(* Python values: None and str.                                            *)
(***************************************************************************)
None == [none |-> TRUE, text |-> <<>>]
Str(t) == [none |-> FALSE, text |-> t]
Truthy(x) == ~x.none /\ x.text # <<>>

(***************************************************************************)
(* The subclass declaration: struct_names and posattrs.                    *)
(***************************************************************************)
struct_names == << <<"p">>, <<"s">> >>
posattrs == <<"word", "lemma">>

(***************************************************************************)
(* str.strip(" \n\r") of line 123.                                         *)
(***************************************************************************)
StripChars == {" ", "\n", "\r"}

RECURSIVE LStrip(_)
LStrip(t) ==
  IF t # <<>> /\ Head(t) \in StripChars THEN LStrip(Tail(t)) ELSE t

RECURSIVE RStrip(_)
RStrip(t) ==
  IF t # <<>> /\ t[Len(t)] \in StripChars
  THEN RStrip(SubSeq(t, 1, Len(t) - 1))
  ELSE t

Strip(t) == RStrip(LStrip(t))

(***************************************************************************)
(* The regular expression _struct_re,                                      *)
(*   <\s*?(/?)\s*?(NAMES)(?:\s*?(/?)\s*?| (.*?))>                          *)
(* applied with fullmatch. \s is white space, . is anything but "\n".      *)
(***************************************************************************)
IsSpace(c) == c \in {" ", "\t", "\n", "\r"}

\* t is in \s*?(/?)\s*? : white space with at most one "/"
SlashPart(t) ==
  /\ \A k \in 1..Len(t) : IsSpace(t[k]) \/ t[k] = "/"
  /\ Cardinality({k \in 1..Len(t) : t[k] = "/"}) <= 1

\* what the group (/?) of such a part captures
SlashGroup(t) ==
  IF \E k \in 1..Len(t) : t[k] = "/" THEN <<"/">> ELSE <<>>

\* the name alternative n matches t from index p on
NameAt(t, p, n) ==
  /\ p + Len(n) - 1 <= Len(t)
  /\ SubSeq(t, p, p + Len(n) - 1) = n

\* first alternative of the tail, \s*?(/?)\s*? , on the text between name and ">"
TailSelfClose(u) == SlashPart(u)

\* second alternative of the tail, a space and (.*?)
TailAttrs(u) ==
  /\ u # <<>>
  /\ u[1] = " "
  /\ \A k \in 1..Len(u) : u[k] # "\n"

\* the ways the pattern matches t in full: <<start of the name, index of the name>>
Matches(t) ==
  {pn \in (1..Len(t)) \X (1..Len(struct_names)) :
     LET p == pn[1]
         n == struct_names[pn[2]]
         u == SubSeq(t, p + Len(n), Len(t) - 1)
     IN /\ Len(t) >= 2
        /\ t[1] = "<"
        /\ t[Len(t)] = ">"
        /\ p >= 2
        /\ SlashPart(SubSeq(t, 2, p - 1))
        /\ NameAt(t, p, n)
        /\ p + Len(n) <= Len(t)
        /\ (TailSelfClose(u) \/ TailAttrs(u))}

\* m.groups() of the match the regex engine finds first, or no match
NoMatch == [matched |-> FALSE, close |-> <<>>, tag |-> <<>>,
            self_close |-> None, attrs |-> None]

StructMatch(t) ==
  IF Matches(t) = {} THEN NoMatch
  ELSE
    LET pn == CHOOSE x \in Matches(t) :
                \A y \in Matches(t) :
                   x[1] < y[1] \/ (x[1] = y[1] /\ x[2] <= y[2])
        p == pn[1]
        n == struct_names[pn[2]]
        u == SubSeq(t, p + Len(n), Len(t) - 1)
    IN [matched |-> TRUE,
        close |-> SlashGroup(SubSeq(t, 2, p - 1)),
        tag |-> n,
        self_close |-> IF TailSelfClose(u) THEN Str(SlashGroup(u)) ELSE None,
        attrs |-> IF TailSelfClose(u) THEN None ELSE Str(Tail(u))]

(***************************************************************************)
(* The attribute pattern of lines 138-139, \s*?(\S+?)="([^"]*?)" , as      *)
(* re.finditer applies it: leftmost match first, then on from its end.     *)
(***************************************************************************)
\* the match starting at s with j white-space characters and a k-character key
AttrAt(t, s, j, k) ==
  /\ s + j + k + 1 <= Len(t)
  /\ \A x \in s..(s + j - 1) : IsSpace(t[x])
  /\ \A x \in (s + j)..(s + j + k - 1) : ~IsSpace(t[x])
  /\ t[s + j + k] = "="
  /\ t[s + j + k + 1] = "\""
  /\ \E e \in (s + j + k + 2)..Len(t) : t[e] = "\""

\* the starts s >= pos at which the pattern matches, with the split the engine takes
AttrMatches(t, pos) ==
  {sjk \in (pos..Len(t)) \X (0..Len(t)) \X (1..Len(t)) :
     AttrAt(t, sjk[1], sjk[2], sjk[3])}

Before3(x, y) ==
  \/ x[1] < y[1]
  \/ x[1] = y[1] /\ x[2] < y[2]
  \/ x[1] = y[1] /\ x[2] = y[2] /\ x[3] <= y[3]

\* the dict comprehension of lines 136-142: a later pair replaces an earlier one
RECURSIVE ParseAttrs(_, _, _)
ParseAttrs(t, pos, acc) ==
  IF AttrMatches(t, pos) = {} THEN acc
  ELSE
    LET m == CHOOSE x \in AttrMatches(t, pos) :
               \A y \in AttrMatches(t, pos) : Before3(x, y)
        v == m[1] + m[2] + m[3] + 2
        e == CHOOSE x \in v..Len(t) :
               t[x] = "\"" /\ \A y \in v..(x - 1) : t[y] # "\""
        key == SubSeq(t, m[1] + m[2], m[1] + m[2] + m[3] - 1)
        val == SubSeq(t, v, e - 1)
    IN ParseAttrs(t, e + 1,
         [x \in (DOMAIN acc) \cup {key} |-> IF x = key THEN val ELSE acc[x]])

EmptyDict == [x \in {} |-> <<>>]

\* the value stored under the tag: the parsed dict, or group 4 as it is
Raw(a) == [kind |-> "raw", raw |-> a, dict |-> EmptyDict]
Dict(d) == [kind |-> "dict", raw |-> None, dict |-> d]

AttrsValue(parse_sattrs, attrs) ==
  IF parse_sattrs
  THEN Dict(ParseAttrs(IF attrs.none THEN <<>> ELSE attrs.text, 1, EmptyDict))
  ELSE Raw(attrs)

(***************************************************************************)
(* parse_position: position.split("\t") into the Position namedtuple,      *)
(* which raises TypeError unless there is one field per posattr.           *)
(***************************************************************************)
RECURSIVE Split(_, _)
Split(t, cur) ==
  IF t = <<>> THEN <<cur>>
  ELSE IF Head(t) = "\t" THEN <<cur>> \o Split(Tail(t), <<>>)
  ELSE Split(Tail(t), Append(cur, Head(t)))

ShapeOk(t) == Len(Split(t, <<>>)) = Len(posattrs)

parse_position(t) == Split(t, <<>>)

(***************************************************************************)
(* The corpus: raw lines of the vertical format, and the files built from  *)
(* them.                                                                   *)
(***************************************************************************)
LineOpenP == <<"<", "p", ">", "\n">>
LineCloseP == <<"<", "/", "p", ">", "\n">>
LineOpenSAttr == <<"<", "s", " ", "k", "=", "\"", "v", "\"", "/", ">", "\n">>
LineCloseS == <<"<", "/", "s", ">", "\n">>
LineSelfS == <<"<", "s", "/", ">", "\n">>
LineCloseSelfS == <<"<", "/", "s", "/", ">", "\n">>
LineToken == <<"a", "\t", "a", "\n">>
LineShort == <<"a", "\n">>

Lines == {LineOpenP, LineCloseP, LineOpenSAttr, LineCloseS, LineSelfS,
          LineCloseSelfS, LineToken, LineShort}

Files == UNION {[1..n -> Lines] : n \in 0..MaxLines}

\* lines 123-124 and line 145 for each raw line, worked out once
LineMatch == [l \in Lines |-> StructMatch(Strip(l))]
LineShapeOk == [l \in Lines |-> ShapeOk(Strip(l))]
LinePosition == [l \in Lines |-> parse_position(Strip(l))]
\* what an opening tag line stores under its tag, with and without parsing
LineAttrs ==
  [l \in Lines |-> [b \in BOOLEAN |-> AttrsValue(b, LineMatch[l].attrs)]]

(***************************************************************************)
(* The callables a caller passes: ignore_fn, hook_fn, match_fn, count_fn.  *)
(* Each is called with (position, sattrs).                                 *)
(***************************************************************************)
TagS == <<"s">>

\* a predicate of a position and the open tags
CallPred(fn, position, sa) ==
  CASE fn = "always" -> TRUE
    [] fn = "in_s" -> TagS \in DOMAIN sa
    [] fn = "not_in_s" -> TagS \notin DOMAIN sa

IgnoreFns == {"None", "not_in_s"}
HookFns == {"None", "hook"}
MatchFns == {"always", "in_s"}
CountFns == {"None", "const", "fields", "tags"}

Kwargs == [parse_sattrs : BOOLEAN, ignore_fn : IgnoreFns, hook_fn : HookFns]
\* the same with callables that raise when they are called
FaultKwargs == [parse_sattrs : BOOLEAN, ignore_fn : IgnoreFns \cup {"raising"},
                hook_fn : HookFns \cup {"raising"}]
\* the keyword arguments search is called with
SearchKwargs == {k \in Kwargs : k.hook_fn = "None"}

\* the open tag names, in the order of struct_names
RECURSIVE OpenNames(_, _)
OpenNames(sa, k) ==
  IF k > Len(struct_names) THEN <<>>
  ELSE (IF struct_names[k] \in DOMAIN sa THEN <<struct_names[k]>> ELSE <<>>)
       \o OpenNames(sa, k + 1)

\* what count_fn returns: one key, or a list of keys
CallCount(fn, match_fn, position, sa) ==
  CASE fn = "None" ->
         [list |-> FALSE,
          keys |-> <<IF CallPred(match_fn, position, sa)
                     THEN <<"T">> ELSE <<"F">> >>]
    [] fn = "const" -> [list |-> FALSE, keys |-> << <<"k">> >>]
    [] fn = "fields" -> [list |-> TRUE, keys |-> position]
    [] fn = "tags" -> [list |-> TRUE, keys |-> OpenNames(sa, 1)]

(***************************************************************************)
(* The statistics, lines 194-205. A number is a fraction num/den with      *)
(* den > 0: the operations of the code are modelled on exact fractions, in *)
(* the order of the code. A call ends with a number, with the NaN or       *)
(* infinity numpy gives for a division by zero (a RuntimeWarning, no       *)
(* exception), or with an exception.                                       *)
(***************************************************************************)
MaxN == 5

Frac(a, b) == [kind |-> "num", num |-> a, den |-> b, err |-> "none"]
PyInt(a) == Frac(a, 1)
NaN == [kind |-> "nan", num |-> 0, den |-> 1, err |-> "none"]
Inf == [kind |-> "inf", num |-> 0, den |-> 1, err |-> "none"]
Raised(e) == [kind |-> "raised", num |-> 0, den |-> 1, err |-> e]

FracLess(x, y) == x.num * y.den < y.num * x.den
FracEq(x, y) == x.kind = "num" /\ y.kind = "num" /\ x.num * y.den = y.num * x.den
FracAdd(x, y) == Frac(x.num * y.den + y.num * x.den, x.den * y.den)

\* the builtin min(d, avg_dist): the first argument unless the second is less
PyMin(x, y) == IF FracLess(y, x) THEN y ELSE x

\* x / y of two Python numbers: a zero divisor raises
PyDiv(x, y) ==
  IF y.num = 0 THEN Raised("ZeroDivisionError")
  ELSE IF y.num > 0 THEN Frac(x.num * y.den, x.den * y.num)
  ELSE Frac(0 - x.num * y.den, 0 - x.den * y.num)

\* x / y where x is a numpy scalar: a zero divisor gives nan or inf
NumpyDiv(x, y) ==
  IF y.num = 0 THEN (IF x.num = 0 THEN NaN ELSE Inf)
  ELSE PyDiv(x, y)

\* a % n on a numpy integer array: the sign of the divisor, and 0 for n = 0
NumpyMod(a, n) == IF n = 0 THEN 0 ELSE a % n

\* line 195
ipm(occurrences, N) ==
  PyDiv(PyInt(1000000 * Len(occurrences)), PyInt(N))

\* np.roll(occurrences, -1): every element moved one place down
RollBack(occurrences) ==
  IF occurrences = <<>> THEN <<>>
  ELSE Tail(occurrences) \o <<Head(occurrences)>>

\* np.roll(occurrences, 1), line 202: every element moved one place up, the
\* last one to the front
Roll(occurrences) ==
  IF occurrences = <<>> THEN <<>>
  ELSE <<occurrences[Len(occurrences)]>>
       \o SubSeq(occurrences, 1, Len(occurrences) - 1)

\* line 203
Distances(occurrences, N) ==
  [k \in 1..Len(occurrences) |->
     NumpyMod(occurrences[k] - Roll(occurrences)[k], N)]

\* the builtin sum over (min(d, avg_dist) for d in distances), from 0
RECURSIVE SumMin(_, _, _)
SumMin(distances, avg_dist, acc) ==
  IF distances = <<>> THEN acc
  ELSE SumMin(Tail(distances), avg_dist,
              FracAdd(acc, PyMin(PyInt(Head(distances)), avg_dist)))

\* lines 198-205
arf(occurrences, N) ==
  LET freq == Len(occurrences)
      avg_dist == PyDiv(PyInt(N), PyInt(freq))
  IN IF freq = 0 THEN PyInt(0)
     ELSE NumpyDiv(SumMin(Distances(occurrences, N), avg_dist, PyInt(0)),
                   avg_dist)

\* a set of offsets as the ascending sequence search records
RECURSIVE SortedSeq(_)
SortedSeq(S) ==
  IF S = {} THEN <<>>
  ELSE LET lo == CHOOSE x \in S : \A y \in S : x <= y
       IN <<lo>> \o SortedSeq(S \ {lo})

\* the arguments of a statistic: ascending offsets and a corpus size
StatInputs ==
  [occurrences : {SortedSeq(S) : S \in SUBSET (0..(MaxN - 1))}, N : 0..MaxN]

NoStat == [pc |-> "idle", fn |-> "none", occurrences |-> <<>>, N |-> 0,
           result |-> PyInt(0)]

(***************************************************************************)
(* State.                                                                  *)
(*   file    the lines of the corpus file at self.path                     *)
(*   kwargs  the arguments the caller passes to positions()                *)
(*   sattrs  the attribute self.sattrs of the Vertical object              *)
(*   gens    the generator objects the caller holds, one per handle        *)
(*   cur     the handle of the generator created last                      *)
(*   srch    the frame of search()                                         *)
(*   stat    a call of ipm or arf: its arguments and how it ended          *)
(***************************************************************************)
VARIABLES file, kwargs, sattrs, gens, cur, srch, stat

vars == <<file, kwargs, sattrs, gens, cur, srch, stat>>

Handles == {"g1", "g2"}
Other(h) == IF h = "g1" THEN "g2" ELSE "g1"

\* pc: none, created (body not entered), running, suspended (at the yield),
\* done (returned), error (raised). n counts the lines read from the file.
NoGen == [pc |-> "none", n |-> 0, file_open |-> FALSE, err |-> "none",
          out |-> <<>>, log |-> <<>>]
NewGen == [NoGen EXCEPT !.pc = "created"]

NoSearch == [pc |-> "idle", h |-> "g1", match_fn |-> "always",
             count_fn |-> "None", cnt |-> 0, bound |-> FALSE, i |-> 0,
             index |-> EmptyDict, rec |-> <<>>, dup |-> FALSE,
             err |-> "none"]

Init ==
  /\ file \in Files
  /\ kwargs \in Kwargs
  /\ sattrs = EmptyDict
  /\ gens = [h \in Handles |-> NoGen]
  /\ cur = "g2"
  /\ srch = NoSearch
  /\ stat = NoStat

\* a caller whose hook or ignore-predicate may raise
InitFaults ==
  /\ file \in Files
  /\ kwargs \in FaultKwargs
  /\ sattrs = EmptyDict
  /\ gens = [h \in Handles |-> NoGen]
  /\ cur = "g2"
  /\ srch = NoSearch
  /\ stat = NoStat

InitSearch ==
  /\ Init
  /\ kwargs \in SearchKwargs

Running(g) == gens[g].pc = "running"
NoneRunning == \A g \in Handles : ~Running(g)

\* the line the running generator g reads next, and its match (lines 122-124)
CurLine(g) == file[gens[g].n + 1]
CurMatch(g) == LineMatch[CurLine(g)]

\* the branches without the test of self_close
LineKindNoSelfClose(m) ==
  IF ~m.matched THEN "content"
  ELSE IF m.close # <<>> THEN "close"
  ELSE "open"

\* the branch of lines 125-145 a match takes
LineKind(m) ==
  IF ~m.matched THEN "content"
  ELSE IF m.close # <<>> THEN "close"
  ELSE IF Truthy(m.self_close) THEN "self_close"
  ELSE "open"

AtLine(g, kind) ==
  /\ Running(g)
  /\ gens[g].n < Len(file)
  /\ LineKind(CurMatch(g)) = kind

\* positions() without the assignment of line 117
ResetSattrsKeeps(sa) == sa

\* line 117
ResetSattrs(sa) == EmptyDict

\* a close that leaves the tag in place
PopTagKeeps(sa, tag) == sa

\* a close that forgets every open tag
PopTagClears(sa, tag) == EmptyDict

\* line 128, on a tag that is a key
PopTag(sa, tag) == [x \in (DOMAIN sa) \ {tag} |-> sa[x]]

\* no test for a tag that is already open
AlreadyOpenNever(sa, tag) == FALSE

\* line 133
AlreadyOpen(sa, tag) == tag \in DOMAIN sa

\* line 143
SetTag(sa, tag, val) ==
  [x \in (DOMAIN sa) \cup {tag} |-> IF x = tag THEN val ELSE sa[x]]

\* the test of line 148 with the negation inside: nothing passes without a filter
YieldsOnlyFiltered(ignore_fn, position, sa) ==
  ignore_fn # "None" /\ ~CallPred(ignore_fn, position, sa)

\* line 148
Yields(ignore_fn, position, sa) ==
  ~(ignore_fn # "None" /\ CallPred(ignore_fn, position, sa))

\* the hook called after the filter, for the positions that pass it
ContentLogFilterFirst(k, position, sa) ==
  (IF kwargs.ignore_fn # "None"
   THEN <<[ev |-> "ignore", line |-> k,
           res |-> CallPred(kwargs.ignore_fn, position, sa)]>>
   ELSE <<>>)
  \o (IF kwargs.hook_fn # "None" /\ Yields(kwargs.ignore_fn, position, sa)
      THEN <<[ev |-> "hook", line |-> k, res |-> FALSE]>> ELSE <<>>)
  \o (IF Yields(kwargs.ignore_fn, position, sa)
      THEN <<[ev |-> "yield", line |-> k, res |-> FALSE]>> ELSE <<>>)

\* lines 146-147: the call of the hook, when there is one
HookLog(k) ==
  IF kwargs.hook_fn # "None"
  THEN <<[ev |-> "hook", line |-> k, res |-> FALSE]>> ELSE <<>>

\* lines 146-149: the calls made for the content line k, in the order of the
\* code; res is what the callable returned
ContentLog(k, position, sa) ==
  HookLog(k)
  \o (IF kwargs.ignore_fn # "None"
      THEN <<[ev |-> "ignore", line |-> k,
              res |-> CallPred(kwargs.ignore_fn, position, sa)]>>
      ELSE <<>>)
  \o (IF Yields(kwargs.ignore_fn, position, sa)
      THEN <<[ev |-> "yield", line |-> k, res |-> FALSE]>> ELSE <<>>)

\* a body that opens the file without a with block
ExitWithLeavesOpen(gen) == gen

\* line 121: leaving the with block closes the file
ExitWith(gen) == [gen EXCEPT !.file_open = FALSE]

\* an exception that is swallowed, the line read again
RaiseRetries(gen, e) == gen

\* the generator leaves the with block by an exception
Raise(gen, e) ==
  ExitWith([gen EXCEPT !.pc = "error", !.err = e, !.n = @ + 1])

(***************************************************************************)
(* positions(): the call creates the generator object, the first next()    *)
(* enters the body, each later next() resumes it after the yield.          *)
(***************************************************************************)
Call(h) ==
  /\ srch.pc = "idle"
  /\ NoneRunning
  /\ h = Other(cur)
  /\ gens' = [gens EXCEPT ![h] = NewGen]
  /\ cur' = h
  /\ UNCHANGED <<stat, file, kwargs, sattrs, srch>>

Start(g) ==
  /\ gens[g].pc = "created"
  /\ NoneRunning
  /\ sattrs' = ResetSattrs(sattrs)
  /\ gens' = [gens EXCEPT ![g].pc = "running", ![g].file_open = TRUE]
  /\ UNCHANGED <<stat, file, kwargs, cur, srch>>

Resume(g) ==
  /\ gens[g].pc = "suspended"
  /\ NoneRunning
  /\ gens' = [gens EXCEPT ![g].pc = "running"]
  /\ UNCHANGED <<stat, file, kwargs, sattrs, cur, srch>>

EndOfInput(g) ==
  /\ Running(g)
  /\ gens[g].n = Len(file)
  /\ gens' = [gens EXCEPT ![g] = ExitWith([@ EXCEPT !.pc = "done"])]
  /\ UNCHANGED <<stat, file, kwargs, sattrs, cur, srch>>

CloseTag(g) ==
  /\ AtLine(g, "close")
  /\ LET tag == CurMatch(g).tag
     IN IF tag \in DOMAIN sattrs
        THEN /\ sattrs' = PopTag(sattrs, tag)
             /\ gens' = [gens EXCEPT ![g].n = @ + 1]
        ELSE /\ sattrs' = sattrs
             /\ gens' = [gens EXCEPT ![g] = Raise(@, "KeyError")]
  /\ UNCHANGED <<stat, file, kwargs, cur, srch>>

SelfCloseTag(g) ==
  /\ AtLine(g, "self_close")
  /\ gens' = [gens EXCEPT ![g].n = @ + 1]
  /\ UNCHANGED <<stat, file, kwargs, sattrs, cur, srch>>

OpenTag(g) ==
  /\ AtLine(g, "open")
  /\ LET m == CurMatch(g)
     IN IF AlreadyOpen(sattrs, m.tag)
        THEN /\ sattrs' = sattrs
             /\ gens' = [gens EXCEPT ![g] = Raise(@, "Exception")]
        ELSE /\ sattrs' = SetTag(sattrs, m.tag,
                                 LineAttrs[CurLine(g)][kwargs.parse_sattrs])
             /\ gens' = [gens EXCEPT ![g].n = @ + 1]
  /\ UNCHANGED <<stat, file, kwargs, cur, srch>>

Content(g) ==
  /\ AtLine(g, "content")
  /\ LET k == gens[g].n + 1
         position == LinePosition[CurLine(g)]
     IN IF ~LineShapeOk[CurLine(g)]
        THEN gens' = [gens EXCEPT ![g] = Raise(@, "TypeError")]
        ELSE IF kwargs.hook_fn = "raising"
        THEN gens' = [gens EXCEPT ![g] = Raise(@, "HookError")]
        ELSE IF kwargs.ignore_fn = "raising"
        THEN gens' = [gens EXCEPT ![g] =
               Raise([@ EXCEPT !.log = @ \o HookLog(k)], "IgnoreError")]
        ELSE gens' = [gens EXCEPT
               ![g].n = k,
               ![g].log = @ \o ContentLog(k, position, sattrs),
               ![g].pc = IF Yields(kwargs.ignore_fn, position, sattrs)
                         THEN "suspended" ELSE "running",
               ![g].out = IF Yields(kwargs.ignore_fn, position, sattrs)
                          THEN Append(@, [line |-> k, position |-> position,
                                          sattrs |-> sattrs])
                          ELSE @]
  /\ UNCHANGED <<stat, file, kwargs, sattrs, cur, srch>>

Step(g) ==
  \/ EndOfInput(g)
  \/ CloseTag(g)
  \/ SelfCloseTag(g)
  \/ OpenTag(g)
  \/ Content(g)

\* a caller that iterates positions() itself, one generator after another
Next ==
  \/ \E h \in Handles : Call(h)
  \/ Start(cur)
  \/ Resume(cur)
  \/ \E g \in Handles : Step(g)

Spec == Init /\ [][Next]_vars

(***************************************************************************)
(* search, lines 155-171: the for loop over enumerate(self.positions()),    *)
(* called with the caller's keyword arguments.                             *)
(***************************************************************************)
\* index[key] = [i] in place of the append
IndexAppendReplaces(index, key, i) ==
  [x \in (DOMAIN index) \cup {key} |-> IF x = key THEN <<i>> ELSE index[x]]

\* index[key].insert(0, i) in place of the append
IndexAppendFront(index, key, i) ==
  [x \in (DOMAIN index) \cup {key} |->
     IF x = key
     THEN <<i>> \o (IF key \in DOMAIN index THEN index[key] ELSE <<>>)
     ELSE index[x]]

\* index[key].append(i) on a defaultdict(list)
IndexAppend(index, key, i) ==
  [x \in (DOMAIN index) \cup {key} |->
     IF x = key
     THEN Append(IF key \in DOMAIN index THEN index[key] ELSE <<>>, i)
     ELSE index[x]]

\* lines 165-169
RECURSIVE IndexCount(_, _, _)
IndexCount(index, keys, i) ==
  IF keys = <<>> THEN index
  ELSE IndexCount(IndexAppend(index, Head(keys), i), Tail(keys), i)

\* enumerate counting from 1
EnumIndexFromOne(cnt) == cnt + 1

\* line 162: the number enumerate pairs with its cnt-th item, counted from 0
EnumIndex(cnt) == cnt

\* line 171: the second component of the result
Returned(i) == i

SearchCall(match_fn, count_fn) ==
  /\ srch.pc = "idle"
  /\ gens' = [gens EXCEPT !["g1"] = NewGen]
  /\ cur' = "g1"
  /\ srch' = [NoSearch EXCEPT !.pc = "pull", !.h = "g1",
                !.match_fn = match_fn, !.count_fn = count_fn]
  /\ UNCHANGED <<stat, file, kwargs, sattrs>>

\* the for statement asks the generator for its next item
SearchPull ==
  /\ srch.pc = "pull"
  /\ gens[srch.h].pc \in {"created", "suspended"}
  /\ sattrs' = IF gens[srch.h].pc = "created"
               THEN ResetSattrs(sattrs) ELSE sattrs
  /\ gens' = [gens EXCEPT ![srch.h].pc = "running",
                          ![srch.h].file_open = TRUE]
  /\ srch' = [srch EXCEPT !.pc = "wait"]
  /\ UNCHANGED <<stat, file, kwargs, cur>>

\* a list of keys that names a key twice
HasRepeat(keys) ==
  \E x, y \in 1..Len(keys) : x < y /\ keys[x] = keys[y]

\* lines 162-169 for the item the generator has just yielded; rec notes, for
\* each matched position, the offset recorded and the line it came from, and
\* dup whether count_fn has returned a list that names a key twice
SearchBody ==
  /\ srch.pc = "wait"
  /\ gens[srch.h].pc = "suspended"
  /\ LET position == gens[srch.h].out[Len(gens[srch.h].out)].position
         i == EnumIndex(srch.cnt)
         count == CallCount(srch.count_fn, srch.match_fn, position, sattrs)
     IN srch' = [srch EXCEPT
          !.pc = "pull",
          !.cnt = @ + 1,
          !.bound = TRUE,
          !.i = i,
          !.index = IF CallPred(srch.match_fn, position, sattrs)
                    THEN IndexCount(@, count.keys, i)
                    ELSE @,
          !.rec = IF CallPred(srch.match_fn, position, sattrs)
                  THEN Append(@, [i |-> i,
                         line |-> gens[srch.h].out[Len(gens[srch.h].out)].line])
                  ELSE @,
          !.dup = @ \/ (/\ CallPred(srch.match_fn, position, sattrs)
                        /\ HasRepeat(count.keys))]
  /\ UNCHANGED <<stat, file, kwargs, sattrs, gens, cur>>

\* line 171: i is unbound when the loop body never ran
SearchReturn ==
  /\ srch.pc = "wait"
  /\ gens[srch.h].pc = "done"
  /\ srch' = IF srch.bound
             THEN [srch EXCEPT !.pc = "returned", !.i = Returned(@)]
             ELSE [srch EXCEPT !.pc = "error", !.err = "UnboundLocalError"]
  /\ UNCHANGED <<stat, file, kwargs, sattrs, gens, cur>>

\* an exception of the generator leaves search as it is
SearchRaise ==
  /\ srch.pc = "wait"
  /\ gens[srch.h].pc = "error"
  /\ srch' = [srch EXCEPT !.pc = "error", !.err = gens[srch.h].err]
  /\ UNCHANGED <<stat, file, kwargs, sattrs, gens, cur>>

NextSearch ==
  \/ \E m \in MatchFns, c \in CountFns : SearchCall(m, c)
  \/ SearchPull
  \/ SearchBody
  \/ SearchReturn
  \/ SearchRaise
  \/ \E g \in Handles : Step(g)

SpecSearch == InitSearch /\ [][NextSearch]_vars

(***************************************************************************)
(* A caller of the statistics: ipm and arf are functions of their          *)
(* arguments, called here on every ascending sequence of offsets below     *)
(* MaxN and every corpus size up to MaxN.                                  *)
(***************************************************************************)
InitStats ==
  /\ file = <<>>
  /\ kwargs = [parse_sattrs |-> FALSE, ignore_fn |-> "None",
               hook_fn |-> "None"]
  /\ sattrs = EmptyDict
  /\ gens = [h \in Handles |-> NoGen]
  /\ cur = "g2"
  /\ srch = NoSearch
  /\ \E a \in StatInputs :
       stat = [NoStat EXCEPT !.occurrences = a.occurrences, !.N = a.N]

CallIpm ==
  /\ stat.pc = "idle"
  /\ stat' = [stat EXCEPT !.pc = "ended", !.fn = "ipm",
                          !.result = ipm(stat.occurrences, stat.N)]
  /\ UNCHANGED <<file, kwargs, sattrs, gens, cur, srch>>

CallArf ==
  /\ stat.pc = "idle"
  /\ stat' = [stat EXCEPT !.pc = "ended", !.fn = "arf",
                          !.result = arf(stat.occurrences, stat.N)]
  /\ UNCHANGED <<file, kwargs, sattrs, gens, cur, srch>>

NextStats ==
  \/ CallIpm
  \/ CallArf

SpecStats == InitStats /\ [][NextStats]_vars

(***************************************************************************)
(* What the claims speak of, read off the input file alone.                *)
(***************************************************************************)
MatchOf(k) == LineMatch[file[k]]
KindOf(k) == LineKind(MatchOf(k))

IsOpening(k, tag) == KindOf(k) = "open" /\ MatchOf(k).tag = tag
IsClosing(k, tag) == KindOf(k) = "close" /\ MatchOf(k).tag = tag
IsContent(k) == KindOf(k) = "content"

Declared == {struct_names[x] : x \in 1..Len(struct_names)}

\* the declared names opened before line k and not closed since
Enclosing(k) ==
  {tag \in Declared :
     \E j \in 1..(k - 1) :
        /\ IsOpening(j, tag)
        /\ \A c \in (j + 1)..(k - 1) : ~IsClosing(c, tag)}

ContentLines == {k \in 1..Len(file) : IsContent(k)}

\* balanced tags, no same-name nesting, every content line of the arity
RECURSIVE Balanced(_, _)
Balanced(k, open) ==
  IF k > Len(file) THEN open = {}
  ELSE LET kind == KindOf(k)
           tag == MatchOf(k).tag
       IN CASE kind = "open" ->
                 tag \notin open /\ Balanced(k + 1, open \cup {tag})
            [] kind = "close" ->
                 tag \in open /\ Balanced(k + 1, open \ {tag})
            [] kind = "self_close" -> Balanced(k + 1, open)
            [] kind = "content" ->
                 LineShapeOk[file[k]] /\ Balanced(k + 1, open)

WellFormed == Balanced(1, {})

Started(g) == gens[g].pc \notin {"none", "created"}
Ended(g) == gens[g].pc \in {"done", "error"}
OutLines(g) == [x \in 1..Len(gens[g].out) |-> gens[g].out[x].line]

\* the elements of the finite set of numbers S, ascending
RECURSIVE Ascending(_)
Ascending(S) ==
  IF S = {} THEN <<>>
  ELSE LET m == CHOOSE x \in S : \A y \in S : x <= y
       IN <<m>> \o Ascending(S \ {m})

(***************************************************************************)
(* C1. At every yield of positions() the keys of sattrs are exactly the    *)
(* declared tag names with an opening tag line before the yielded line and *)
(* no closing tag line of that name in between.                            *)
(***************************************************************************)
C1_SattrsAreEnclosingTags ==
  \A g \in Handles :
     \A x \in 1..Len(gens[g].out) :
        DOMAIN gens[g].out[x].sattrs = Enclosing(gens[g].out[x].line)

\* a position yielded after a tag was opened and closed again
C1_Witness ==
  \E g \in Handles :
     \E x \in 1..Len(gens[g].out) :
        \E j \in 1..(gens[g].out[x].line - 1), tag \in Declared :
           IsOpening(j, tag) /\ tag \notin DOMAIN gens[g].out[x].sattrs

(***************************************************************************)
(* C2. On a well-formed input and without an ignore-predicate,             *)
(* positions() yields one position per content line, in line order, none   *)
(* for a tag line, and as many as there are content lines.                 *)
(***************************************************************************)
C2_OnePositionPerContentLine ==
  (WellFormed /\ kwargs.ignore_fn = "None") =>
    \A g \in Handles :
       /\ gens[g].pc # "error"
       /\ OutLines(g) =
            Ascending({k \in ContentLines : k <= gens[g].n})
       /\ gens[g].pc = "done" => Len(gens[g].out) = Cardinality(ContentLines)

\* a finished stream over a well-formed file with tag lines of every kind
\* around a content line
C2_Witness ==
  /\ WellFormed
  /\ kwargs.ignore_fn = "None"
  /\ \E g \in Handles :
        /\ gens[g].pc = "done"
        /\ Len(gens[g].out) = 1
        /\ \E k \in 1..Len(file) : KindOf(k) = "open"
        /\ \E k \in 1..Len(file) : KindOf(k) = "close"

(***************************************************************************)
(* C3. When positions() processes a closing tag line whose name is not in  *)
(* sattrs, or an opening tag line whose name is in sattrs, the stream ends *)
(* in an error at that line: the generator raises, yields nothing for that *)
(* line, and once it has raised it never reads or yields again.            *)
(***************************************************************************)
Offending(g) ==
  /\ Running(g)
  /\ gens[g].n < Len(file)
  /\ LET m == CurMatch(g)
     IN /\ m.matched
        /\ \/ m.close # <<>> /\ m.tag \notin DOMAIN sattrs
           \/ /\ m.close = <<>>
              /\ ~Truthy(m.self_close)
              /\ m.tag \in DOMAIN sattrs

C3_StructuralErrorIsFatal ==
  [][\A g \in Handles :
       /\ (Offending(g) /\ gens'[g] # gens[g]) =>
            /\ gens'[g].pc = "error"
            /\ gens'[g].err \in {"KeyError", "Exception"}
            /\ gens'[g].n = gens[g].n + 1
            /\ gens'[g].out = gens[g].out
       /\ (gens[g].pc = "error" /\ gens'[g].pc # "created") =>
            gens'[g] = gens[g]]_vars

\* a stream that raised at a second opening of an open tag, with a content
\* line left unread behind it
C3_Witness ==
  \E g \in Handles :
     /\ gens[g].pc = "error"
     /\ gens[g].err = "Exception"
     /\ gens[g].n < Len(file)
     /\ IsContent(gens[g].n + 1)

(***************************************************************************)
(* C4, as stated. Processing a self-closing tag line of a declared name,   *)
(* with the self-closing flag set or with attribute text before the "/",   *)
(* whether or not the name is open, leaves sattrs unchanged, yields no     *)
(* position and raises no error.                                           *)
(***************************************************************************)
SelfClosingForm(m) ==
  /\ m.matched
  /\ \/ Truthy(m.self_close)
     \/ /\ Truthy(m.attrs)
        /\ m.attrs.text[Len(m.attrs.text)] = "/"

NoEffect(g) ==
  /\ sattrs' = sattrs
  /\ gens'[g].out = gens[g].out
  /\ gens'[g].pc = "running"
  /\ gens'[g].n = gens[g].n + 1

C4_AsStated ==
  [][\A g \in Handles :
       (/\ Running(g)
        /\ gens[g].n < Len(file)
        /\ SelfClosingForm(CurMatch(g))
        /\ gens'[g] # gens[g]) => NoEffect(g)]_vars

(***************************************************************************)
(* C4, amended. Processing a tag line on which the recognizer sets the     *)
(* self-closing flag and not the closing flag, whether or not the name is  *)
(* open, leaves sattrs unchanged, yields no position and raises no error.  *)
(***************************************************************************)
SelfCloseOnly(m) == m.matched /\ m.close = <<>> /\ Truthy(m.self_close)

C4_SelfCloseHasNoEffect ==
  [][\A g \in Handles :
       (/\ Running(g)
        /\ gens[g].n < Len(file)
        /\ SelfCloseOnly(CurMatch(g))
        /\ gens'[g] # gens[g]) => NoEffect(g)]_vars

\* a self-closing line of an open tag has just been processed
C4_Witness ==
  \E g \in Handles :
     /\ Running(g)
     /\ gens[g].n >= 1
     /\ SelfCloseOnly(MatchOf(gens[g].n))
     /\ MatchOf(gens[g].n).tag \in DOMAIN sattrs

(***************************************************************************)
(* C5. For every content line parsed into a position the hook, when given, *)
(* is called exactly once, before the ignore-predicate and whether or not  *)
(* the position is ignored; the position is yielded if and only if no      *)
(* ignore-predicate is given or it returned false. Hook calls and yields   *)
(* occur in line order.                                                    *)
(***************************************************************************)
Parsed(g) ==
  {k \in ContentLines :
     /\ k <= gens[g].n
     /\ ~(gens[g].pc = "error" /\ k = gens[g].n)}

Events(g, ev, k) ==
  {x \in 1..Len(gens[g].log) :
     gens[g].log[x].ev = ev /\ gens[g].log[x].line = k}

C5_HookThenFilterThenYield ==
  \A g \in Handles :
     /\ \A x \in 1..Len(gens[g].log) : gens[g].log[x].line \in Parsed(g)
     /\ \A x, y \in 1..Len(gens[g].log) :
           x < y => gens[g].log[x].line <= gens[g].log[y].line
     /\ \A x, y \in 1..Len(gens[g].out) :
           x < y => gens[g].out[x].line < gens[g].out[y].line
     /\ \A k \in Parsed(g) :
           /\ Cardinality(Events(g, "hook", k)) =
                (IF kwargs.hook_fn # "None" THEN 1 ELSE 0)
           /\ Cardinality(Events(g, "ignore", k)) =
                (IF kwargs.ignore_fn # "None" THEN 1 ELSE 0)
           /\ \A h \in Events(g, "hook", k) :
                 \A e \in Events(g, "ignore", k) \cup Events(g, "yield", k) :
                    h < e
           /\ \A e \in Events(g, "ignore", k) :
                 \A y \in Events(g, "yield", k) : e < y
           /\ Cardinality(Events(g, "yield", k)) <= 1
           /\ Events(g, "yield", k) # {} <=>
                \A e \in Events(g, "ignore", k) : ~gens[g].log[e].res
           /\ Events(g, "yield", k) # {} <=>
                \E x \in 1..Len(gens[g].out) : gens[g].out[x].line = k

\* with a hook and an ignore-predicate: one position dropped after its hook
\* call, a later one yielded
C5_Witness ==
  \E g \in Handles :
     \E j, k \in Parsed(g) :
        /\ j < k
        /\ Events(g, "hook", j) # {}
        /\ Events(g, "yield", j) = {}
        /\ Events(g, "hook", k) # {}
        /\ Events(g, "yield", k) # {}

(***************************************************************************)
(* C6. For a well-formed input with total >= 1 content positions, search   *)
(* with a match predicate that is always true and a count function that    *)
(* returns one constant key (and no ignore-predicate passed on) returns an *)
(* index with exactly one entry, the offsets 0, 1, ..., total-1.           *)
(***************************************************************************)
ConstKey == <<"k">>

C6_ConstantKeyIndex ==
  (/\ WellFormed
   /\ Cardinality(ContentLines) >= 1
   /\ kwargs.ignore_fn = "None"
   /\ srch.match_fn = "always"
   /\ srch.count_fn = "const") =>
     /\ srch.pc # "error"
     /\ srch.pc = "returned" =>
          /\ DOMAIN srch.index = {ConstKey}
          /\ srch.index[ConstKey] =
               [x \in 1..Cardinality(ContentLines) |-> x - 1]

\* such a search has returned for a file with tags and two positions
C6_Witness ==
  /\ WellFormed
  /\ Cardinality(ContentLines) = 2
  /\ Len(file) > 2
  /\ kwargs.ignore_fn = "None"
  /\ srch.match_fn = "always"
  /\ srch.count_fn = "const"
  /\ srch.pc = "returned"

(***************************************************************************)
(* C7, as stated. The integer search returns with the index is the corpus  *)
(* size, the number of content positions of the well-formed input.         *)
(***************************************************************************)
C7_AsStated ==
  (WellFormed /\ kwargs.ignore_fn = "None" /\ srch.pc = "returned") =>
     srch.i = Cardinality(ContentLines)

(***************************************************************************)
(* C8, as stated. The offsets of every key of the index are strictly       *)
(* increasing, for every match predicate and count function, a count       *)
(* function that returns a list naming a key twice included.               *)
(***************************************************************************)
StrictlyIncreasing(q) == \A x, y \in 1..Len(q) : x < y => q[x] < q[y]
NonDecreasing(q) == \A x, y \in 1..Len(q) : x < y => q[x] <= q[y]

C8_AsStated ==
  \A key \in DOMAIN srch.index : StrictlyIncreasing(srch.index[key])

(***************************************************************************)
(* C8, amended. The offsets of every key of the index are non-decreasing,  *)
(* and strictly increasing unless the count function has returned a list   *)
(* that names a key more than once.                                        *)
(***************************************************************************)
C8_OffsetsAscend ==
  \A key \in DOMAIN srch.index :
     /\ NonDecreasing(srch.index[key])
     /\ ~srch.dup => StrictlyIncreasing(srch.index[key])

\* a count function that returns a list has put two offsets under one key
C8_Witness ==
  /\ srch.pc = "returned"
  /\ srch.count_fn = "tags"
  /\ \E key \in DOMAIN srch.index : Len(srch.index[key]) >= 2

(***************************************************************************)
(* C9, as stated. Every offset search records for a matched position is    *)
(* the number of content lines that precede it, also when an               *)
(* ignore-predicate drops positions.                                       *)
(***************************************************************************)
C9_AsStated ==
  \A x \in 1..Len(srch.rec) :
     srch.rec[x].i =
       Cardinality({k \in ContentLines : k < srch.rec[x].line})

(***************************************************************************)
(* C9, amended. Every offset search records for a matched position is the  *)
(* number of content lines that precede it and were not dropped by the     *)
(* ignore-predicate: its 0-based index among the positions yielded.        *)
(***************************************************************************)
Dropped(k) ==
  /\ kwargs.ignore_fn # "None"
  /\ CallPred(kwargs.ignore_fn, LinePosition[file[k]],
              [t \in Enclosing(k) |-> <<>>])

C9_OffsetCountsYielded ==
  \A x \in 1..Len(srch.rec) :
     srch.rec[x].i =
       Cardinality({k \in ContentLines :
                      k < srch.rec[x].line /\ ~Dropped(k)})

\* an offset recorded for a position behind a dropped one
C9_Witness ==
  \E x \in 1..Len(srch.rec) :
     \E k \in ContentLines : k < srch.rec[x].line /\ Dropped(k)

(***************************************************************************)
(* C10. Two invocations of positions() on the same object, one after the   *)
(* other, yield the same positions with the same sattrs at corresponding   *)
(* offsets, also when the earlier one was abandoned mid-stream or raised   *)
(* with tags still open.                                                   *)
(***************************************************************************)
IsPrefix(a, b) == Len(a) <= Len(b) /\ SubSeq(b, 1, Len(a)) = a

C10_InvocationsAgree ==
  \A g, h \in Handles :
     (Started(g) /\ Started(h) /\ gens[g].n <= gens[h].n) =>
        /\ IsPrefix(gens[g].out, gens[h].out)
        /\ IsPrefix(gens[g].log, gens[h].log)
        /\ gens[g].pc = "error" => gens[h] = gens[g]
        /\ (Ended(g) /\ Ended(h)) => gens[h] = gens[g]

\* the earlier invocation was abandoned at a yield inside an open tag, the
\* later one has come to the same yield
C10_Witness ==
  LET a == Other(cur)
  IN /\ gens[a].pc = "suspended"
     /\ gens[a].n < Len(file)
     /\ DOMAIN gens[a].out[Len(gens[a].out)].sattrs # {}
     /\ gens[cur].pc = "suspended"
     /\ gens[cur].n = gens[a].n


(***************************************************************************)
(* Two generators of one Vertical object, advanced in any order. Both      *)
(* bodies read and write the one attribute self.sattrs (lines 117, 128,    *)
(* 133, 143, 149); only one body runs at a time, and control changes hands *)
(* at a yield.                                                             *)
(***************************************************************************)
\* the caller creates each of its two generators once
Create(h) ==
  /\ gens[h].pc = "none"
  /\ gens' = [gens EXCEPT ![h] = NewGen]
  /\ cur' = h
  /\ UNCHANGED <<stat, file, kwargs, sattrs, srch>>

NextInterleaved ==
  \/ \E h \in Handles : Create(h)
  \/ \E g \in Handles : Start(g)
  \/ \E g \in Handles : Resume(g)
  \/ \E g \in Handles : Step(g)

SpecInterleaved == Init /\ [][NextInterleaved]_vars

\* what one generator does from line k on when no other generator touches
\* sattrs: the lines read, the positions yielded and the way it ends
RECURSIVE Alone(_, _, _)
Alone(k, sa, out) ==
  IF k > Len(file)
  THEN [pc |-> "done", err |-> "none", n |-> Len(file), out |-> out]
  ELSE LET m == MatchOf(k)
           position == LinePosition[file[k]]
           failed(e) == [pc |-> "error", err |-> e, n |-> k, out |-> out]
       IN CASE KindOf(k) = "close" ->
                 IF m.tag \in DOMAIN sa
                 THEN Alone(k + 1, PopTag(sa, m.tag), out)
                 ELSE failed("KeyError")
            [] KindOf(k) = "self_close" -> Alone(k + 1, sa, out)
            [] KindOf(k) = "open" ->
                 IF AlreadyOpen(sa, m.tag)
                 THEN failed("Exception")
                 ELSE Alone(k + 1,
                            SetTag(sa, m.tag,
                                   LineAttrs[file[k]][kwargs.parse_sattrs]),
                            out)
            [] KindOf(k) = "content" ->
                 IF ~LineShapeOk[file[k]]
                 THEN failed("TypeError")
                 ELSE Alone(k + 1, sa,
                            IF Yields(kwargs.ignore_fn, position, sa)
                            THEN Append(out, [line |-> k,
                                              position |-> position,
                                              sattrs |-> sa])
                            ELSE out)

AloneRun == Alone(1, EmptyDict, <<>>)

\* C11: whatever the order in which two generators of one Vertical object are
\* advanced, each yields the positions, with the sattrs, that it yields when
\* run alone, and ends as it ends when run alone (same error, same line).
C11_AsStated ==
  \A g \in Handles :
    Started(g) =>
      /\ IsPrefix(gens[g].out, AloneRun.out)
      /\ Ended(g) =>
           /\ gens[g].out = AloneRun.out
           /\ gens[g].pc = AloneRun.pc
           /\ gens[g].err = AloneRun.err
           /\ gens[g].n = AloneRun.n

(***************************************************************************)
(* positions() called with a hook or an ignore-predicate that may raise:   *)
(* the exception leaves the generator through the with block of line 121.  *)
(***************************************************************************)
SpecFaults == InitFaults /\ [][Next]_vars

\* C12: once a generator has finished, normally or by an error (structural,
\* shape, or raised by the hook or by the ignore-predicate), the file it
\* opened is closed.
C12_FileClosedAtEnd ==
  \A g \in Handles : Ended(g) => ~gens[g].file_open

\* a generator that opened the file, read two tag lines and was ended at the
\* third line by the exception of the hook
C12_Witness ==
  /\ gens[cur].pc = "error"
  /\ gens[cur].err = "HookError"
  /\ gens[cur].n = 3
  /\ ~gens[cur].file_open

(***************************************************************************)
(* A caller that creates one generator and keeps calling next() on it      *)
(* until it ends, as a for loop over positions() does. A next() that is     *)
(* called runs the body up to the next yield, return or raise, hence the    *)
(* weak fairness of the steps.                                              *)
(***************************************************************************)
NextPulling ==
  \/ Create("g1")
  \/ Start("g1")
  \/ Resume("g1")
  \/ Step("g1")

SpecPulling == InitFaults /\ [][NextPulling]_vars /\ WF_vars(NextPulling)

\* the lines of the file the generator g has consumed are lines 1..n
Consumed(g) == gens[g].n

\* what is left for the generator g to do: the lines not yet consumed, and
\* the steps from where it stands to its next line or to its end
Remaining(g) ==
  4 * (Len(file) - Consumed(g))
  + (CASE gens[g].pc = "none" -> 3
       [] gens[g].pc \in {"created", "suspended"} -> 2
       [] gens[g].pc = "running" -> 1
       [] OTHER -> 0)

\* C13: a caller that keeps pulling reaches the end of the stream (return or
\* error); until the stream has ended a step can be taken, and every step
\* leaves strictly less to do. The lines are consumed one at a time, in order and never
\* again, none beyond the end of the file; once all lines are consumed
\* nothing more is yielded.
C13_PullingEnds ==
  /\ <>Ended("g1")
  /\ [](Ended("g1") \/ ENABLED <<NextPulling>>_vars)
  /\ [](Remaining("g1") >= 0)
  /\ [][/\ Remaining("g1")' < Remaining("g1")
        /\ Consumed("g1")' \in {Consumed("g1"), Consumed("g1") + 1}
        /\ Consumed("g1")' <= Len(file)
        /\ Consumed("g1") = Len(file)
             => gens["g1"].out' = gens["g1"].out]_vars

\* the stream of a three-line file ended normally after two positions
C13_Witness ==
  /\ gens["g1"].pc = "done"
  /\ Consumed("g1") = 3
  /\ Len(gens["g1"].out) = 2

(***************************************************************************)
(* Claims about the statistics.                                            *)
(***************************************************************************)
ArfEnded == stat.pc = "ended" /\ stat.fn = "arf"
IpmEnded == stat.pc = "ended" /\ stat.fn = "ipm"

InRange(occurrences, N) ==
  \A k \in 1..Len(occurrences) : occurrences[k] >= 0 /\ occurrences[k] < N

\* freq occurrences whose circular gaps, the one from the last occurrence
\* round to the first included, are all N/freq
EvenlySpaced(occurrences, N) ==
  LET freq == Len(occurrences)
  IN /\ freq >= 1
     /\ N % freq = 0
     /\ \A k \in 2..freq : occurrences[k] - occurrences[k - 1] = N \div freq
     /\ occurrences[1] + N - occurrences[freq] = N \div freq

\* C14: for N > 0 and freq >= 1 dividing N, arf of freq evenly spaced
\* occurrences is exactly freq.
C14_AsStated ==
  (/\ ArfEnded
   /\ stat.N > 0
   /\ InRange(stat.occurrences, stat.N)
   /\ EvenlySpaced(stat.occurrences, stat.N))
  => FracEq(stat.result, PyInt(Len(stat.occurrences)))

\* the circular distance of the k-th occurrence to the one before it, the
\* last occurrence being the one before the first
CircularDistance(occurrences, N, k) ==
  (occurrences[k]
   - occurrences[IF k = 1 THEN Len(occurrences) ELSE k - 1]) % N

\* sum over the occurrences k..freq of min(distance * freq, N), which is
\* freq times min(distance, N/freq)
RECURSIVE SaturatedSum(_, _, _)
SaturatedSum(occurrences, N, k) ==
  IF k > Len(occurrences) THEN 0
  ELSE LET d == CircularDistance(occurrences, N, k) * Len(occurrences)
       IN (IF d < N THEN d ELSE N) + SaturatedSum(occurrences, N, k + 1)

\* C15: for N > 0 and ascending offsets in [0, N), arf is 0 for no
\* occurrence, and otherwise the sum of min(distance[k], N/freq) divided by
\* N/freq, that is the sum of min(distance[k] * freq, N) divided by N.
C15_ArfIsSaturatedSum ==
  (/\ ArfEnded
   /\ stat.N > 0
   /\ InRange(stat.occurrences, stat.N))
  => /\ stat.result.kind = "num"
     /\ stat.occurrences = <<>> => stat.result.num = 0
     /\ stat.result.num * stat.N
          = stat.result.den * SaturatedSum(stat.occurrences, stat.N, 1)

\* three clustered occurrences in a corpus of 5: the gap round the corpus is
\* cut to 5/3, the two gaps of 1 are not, arf = (5/3 + 1 + 1) / (5/3) = 11/5
C15_Witness ==
  /\ ArfEnded
  /\ stat.occurrences = <<0, 1, 2>>
  /\ stat.N = 5
  /\ FracEq(stat.result, Frac(11, 5))

\* C16: a statistic called with N = 0 (arf with at least one occurrence)
\* ends with an exception, never with a value.
C16_AsStated ==
  (/\ stat.pc = "ended"
   /\ stat.N = 0
   /\ IpmEnded \/ stat.occurrences # <<>>)
  => stat.result.kind = "raised"

(***************************************************************************)
(* Claims about the end of the input and about the result of search.       *)
(***************************************************************************)
\* C17: when positions() has ended normally every tag opened was closed:
\* sattrs is empty and no tag is open at the end of the input.
C17_AsStated ==
  gens[cur].pc = "done" =>
     /\ sattrs = EmptyDict
     /\ Enclosing(Len(file) + 1) = {}

\* C18: for (index, N) returned by search on a well-formed input, N > 0 and
\* every offset recorded under every key is in [0, N).
C18_AsStated ==
  (WellFormed /\ srch.pc = "returned") =>
     /\ srch.i > 0
     /\ \A key \in DOMAIN srch.index :
          \A x \in 1..Len(srch.index[key]) :
             srch.index[key][x] >= 0 /\ srch.index[key][x] < srch.i

\* C19: on a well-formed input search returns (index, integer) and raises
\* nothing, also when positions() yields no position; the index is then
\* empty.
C19_AsStated ==
  (WellFormed /\ srch.pc \in {"returned", "error"}) =>
     /\ srch.pc = "returned"
     /\ srch.cnt = 0 => srch.index = EmptyDict

\* the line the running generator g reads next is a closing tag line for an
\* open tag, or an opening tag line for a tag that is not open
ClosesOpenTag(g) ==
  /\ AtLine(g, "close")
  /\ CurMatch(g).tag \in DOMAIN sattrs
OpensNewTag(g) ==
  /\ AtLine(g, "open")
  /\ CurMatch(g).tag \notin DOMAIN sattrs

\* C20: a closing tag line for an open tag T removes T from sattrs and
\* leaves every other entry as it is, whichever tag was opened last, and is
\* no error; an opening tag line adds its own name and changes no other
\* entry.
C20_TagLineChangesOnlyItsTag ==
  [][\A g \in Handles :
       /\ ClosesOpenTag(g) =>
            /\ DOMAIN sattrs' = (DOMAIN sattrs) \ {CurMatch(g).tag}
            /\ \A x \in DOMAIN sattrs' : sattrs'[x] = sattrs[x]
            /\ gens'[g].pc = "running"
            /\ gens'[g].n = gens[g].n + 1
       /\ OpensNewTag(g) =>
            /\ DOMAIN sattrs' = (DOMAIN sattrs) \cup {CurMatch(g).tag}
            /\ \A x \in DOMAIN sattrs : sattrs'[x] = sattrs[x]
            /\ gens'[g].pc = "running"
            /\ gens'[g].n = gens[g].n + 1]_vars

\* p opened, then s opened with an attribute, then p closed before s: the
\* close was accepted and s is open as it was
C20_Witness ==
  /\ Running(cur)
  /\ gens[cur].n = 3
  /\ IsOpening(1, <<"p">>)
  /\ IsOpening(2, <<"s">>)
  /\ IsClosing(3, <<"p">>)
  /\ DOMAIN sattrs = {<<"s">>}
  /\ sattrs[<<"s">>] = LineAttrs[file[2]][kwargs.parse_sattrs]

=============================================================================
